---- MODULE Spec2Model ----
(***************************************************************************)
(* A model of parse.py: the static index of a Python package tree.         *)
(*                                                                         *)
(* Representation of values.                                               *)
(*  - A Python str that is used as a dotted name is the non-empty sequence *)
(*    of its dot-free segments: "pkg.mod" is <<"pkg", "mod">>, "" is <<"">>*)
(*    and f"{a}.{b}" is a \o b.  Docstrings are opaque TLA+ strings.       *)
(*  - A path component (file or directory name) is such a dotted name:     *)
(*    "__init__.py" is <<"__init__", "py">>, the directory "sub.x" is      *)
(*    <<"sub", "x">>.  A relative path is a sequence of components, a      *)
(*    pathlib.Path under a search root is [root, parts].                   *)
(*  - A parso tree is the record of what the code reads from it: the doc   *)
(*    node and the funcdefs/classdefs of a scope in source order.          *)
(*  - A raised exception is a record [type, msg, path]; a call that can    *)
(*    raise returns [ok, val, err].                                        *)
(***************************************************************************)
EXTENDS Naturals, Sequences, FiniteSets, TLC

VARIABLES
    fs,        \* the search roots: fs[r] is the listing of root r (the input)
    packages,  \* CodeLibrary.packages
    calls,     \* the names of the load_package calls that returned, in order
    attempt,   \* the last load_package call: its name and packages before it
    pc,        \* position of the run: "load", "serialize", "done", "aborted"
    idx,       \* serialize: the next filesystem operation of the run
    dirs,      \* the directories that exist under the target directory
    disk,      \* the files under the target directory: path -> content
    written,   \* the file paths this run has written, in order
    raised,    \* the exception that ended the run, or NoError
    call,      \* a direct call of an entity constructor: its arguments
    ret        \* what that call returned or raised

vars == <<fs, packages, calls, attempt, pc, idx, dirs, disk, written, raised, call, ret>>

(***************************************************************************)
(* Bounds of the model.                                                    *)
(***************************************************************************)
NumRoots == 2   \* the number of directories of SYS_PATH
MaxLoads == 2   \* the number of load_package calls of a run

(***************************************************************************)
(* Strings.                                                                *)
(***************************************************************************)
EMPTY_STRING == <<"">>

\* f"{a}.{b}"
Dot(a, b) == a \o b

\* f"{namespace}.json"
JsonName(namespace) == namespace \o <<"json">>

\* The local variable a function has not assigned yet.
Unbound == <<>>

NoError == [type |-> "none", msg |-> "", path |-> <<>>]
NoVal == [none |-> TRUE]
Ok(v) == [ok |-> TRUE, val |-> v, err |-> NoError]
Raise(e) == [ok |-> FALSE, val |-> NoVal, err |-> e]

UnboundLocalError(local) == [type |-> "UnboundLocalError", msg |-> local, path |-> <<>>]
FunctionNamespaceError ==
    [type |-> "ValueError",
     msg |-> "Make sure a functions's module_name, package_name, or class_name is set",
     path |-> <<>>]
ClassNamespaceError ==
    [type |-> "ValueError",
     msg |-> "Make sure a class's module_name or package_name is set",
     path |-> <<>>]
NotFoundError(file_path) ==
    [type |-> "ValueError", msg |-> "not found in sys.path!", path |-> file_path]
FilesystemError == [type |-> "OSError", msg |-> "", path |-> <<>>]

(***************************************************************************)
(* Parso trees.                                                            *)
(***************************************************************************)
NoDocNode == [kind |-> "none", text |-> ""]
LeafDoc(s) == [kind |-> "leaf", text |-> s]
NodeDoc(s) == [kind |-> "node", text |-> s]

ParsedFunction(name, doc) == [name |-> name, doc |-> doc]
ParsedClass(name, doc, funcdefs) == [name |-> name, doc |-> doc, funcdefs |-> funcdefs]
ParsedModule(doc, classdefs, funcdefs) ==
    [doc |-> doc, classdefs |-> classdefs, funcdefs |-> funcdefs]

find_node_docstring(node) ==
    IF node.doc.kind = "none" THEN ""
    ELSE IF node.doc.kind = "leaf" THEN node.doc.text
    ELSE node.doc.text

(***************************************************************************)
(* FunctionDef.                                                            *)
(***************************************************************************)
NewFunctionDef(docstring, name, namespace, class_name, module_name, package_name) ==
    [docstring |-> docstring, name |-> name, namespace |-> namespace,
     class_name |-> class_name, module_name |-> module_name,
     package_name |-> package_name]

Truthy(s) == s # EMPTY_STRING

\* RootNamespaceOf with the first two branches in the other order.
RootNamespaceOf_PackageFirst(class_name, module_name, package_name) ==
    IF Truthy(package_name) THEN package_name
    ELSE IF Truthy(module_name) THEN module_name
    ELSE IF Truthy(class_name) THEN class_name
    ELSE Unbound

\* The value of root_namespace after the if/elif chain of lines 72-77.
RootNamespaceOf(class_name, module_name, package_name) ==
    IF Truthy(module_name) THEN module_name
    ELSE IF Truthy(package_name) THEN package_name
    ELSE IF Truthy(class_name) THEN class_name
    ELSE Unbound

from_parsed_function(parsed_function, class_name, module_name, package_name) ==
    LET docstring == find_node_docstring(parsed_function)
        name == <<parsed_function.name>>
        root_namespace == RootNamespaceOf(class_name, module_name, package_name)
    IN  IF root_namespace = Unbound THEN Raise(UnboundLocalError("root_namespace"))
        ELSE IF ~Truthy(root_namespace) THEN Raise(FunctionNamespaceError)
        ELSE Ok(NewFunctionDef(docstring, name, Dot(root_namespace, name),
                               class_name, module_name, package_name))

(***************************************************************************)
(* ClassDef.                                                               *)
(***************************************************************************)
NewClassDef(docstring, name, namespace, methods, module_name, package_name) ==
    [docstring |-> docstring, name |-> name, namespace |-> namespace,
     methods |-> methods, module_name |-> module_name,
     package_name |-> package_name]

\* The value of namespace after the if/elif of lines 126-129.
ClassNamespaceOf(name, module_name, package_name) ==
    IF Truthy(module_name) THEN Dot(module_name, name)
    ELSE IF Truthy(package_name) THEN Dot(package_name, name)
    ELSE Unbound

\* MethodContext handing the class's own context on to its methods.
MethodContext_Enclosing(namespace, module_name, package_name) ==
    <<EMPTY_STRING, module_name, package_name>>

\* The context a class hands to the constructor of each of its methods
\* (lines 137-140): <<class_name, module_name, package_name>>.
MethodContext(namespace, module_name, package_name) ==
    <<namespace, EMPTY_STRING, EMPTY_STRING>>

\* A list comprehension over calls that can raise: the first exception
\* propagates, otherwise the list of the values.
FirstError(results) ==
    LET bad == {i \in 1..Len(results) : ~results[i].ok}
    IN  IF bad = {} THEN NoError
        ELSE results[CHOOSE i \in bad : \A j \in bad : i <= j].err

Collect(results) ==
    IF FirstError(results) = NoError
    THEN Ok([i \in 1..Len(results) |-> results[i].val])
    ELSE Raise(FirstError(results))

from_parsed_class(parsed_class, module_name, package_name) ==
    LET docstring == find_node_docstring(parsed_class)
        name == <<parsed_class.name>>
        namespace == ClassNamespaceOf(name, module_name, package_name)
        ctx == MethodContext(namespace, module_name, package_name)
        methods == Collect([i \in 1..Len(parsed_class.funcdefs) |->
                       from_parsed_function(parsed_class.funcdefs[i],
                                            ctx[1], ctx[2], ctx[3])])
    IN  IF namespace = Unbound THEN Raise(UnboundLocalError("namespace"))
        ELSE IF ~Truthy(namespace) THEN Raise(ClassNamespaceError)
        ELSE IF ~methods.ok THEN Raise(methods.err)
        ELSE Ok(NewClassDef(docstring, name, namespace, methods.val,
                            module_name, package_name))

all_methods(class_def) == class_def.methods

(***************************************************************************)
(* The filesystem under the search roots.  fs[r] lists the files of root r *)
(* in the order the operating system lists them: each entry is the file's  *)
(* path relative to the root and the tree parso parses from its text.      *)
(***************************************************************************)
SYS_PATH == [r \in 1..NumRoots |-> r]

InitPy == <<"__init__", "py">>

PathOf(root, parts) == [root |-> root, parts |-> parts]

\* path / name
Child(path, name) == [path EXCEPT !.parts = Append(@, name)]

\* path.parent
Parent(path) == [path EXCEPT !.parts = SubSeq(@, 1, Len(@) - 1)]

\* path.name
NameOf(path) == path.parts[Len(path.parts)]

\* PurePath.stem of a file or directory name: the name without its last suffix.
Stem(name) == IF Len(name) > 1 THEN SubSeq(name, 1, Len(name) - 1) ELSE name

is_file(path) == \E i \in 1..Len(fs[path.root]) : fs[path.root][i].parts = path.parts

\* parso.parse(path.read_text()).get_root_node()
ParseFile(path) ==
    LET i == CHOOSE i \in 1..Len(fs[path.root]) : fs[path.root][i].parts = path.parts
    IN  fs[path.root][i].src

IsUnder(parts, dir) == Len(parts) > Len(dir) /\ SubSeq(parts, 1, Len(dir)) = dir

RECURSIVE Dedup(_)
Dedup(s) ==
    IF s = <<>> THEN <<>>
    ELSE LET front == Dedup(SubSeq(s, 1, Len(s) - 1))
             last == s[Len(s)]
         IN  IF \E i \in 1..Len(front) : front[i] = last THEN front
             ELSE Append(front, last)

\* str.startswith("__") of the first segment of a file name.
StartsWithDunder(segment) == segment \in {"__init__", "__main__"}

\* [m for m in dir.glob("*.py")]: the files of dir named *.py, as listed.
glob_py(dir) ==
    LET here(e) == /\ IsUnder(e.parts, dir.parts)
                   /\ Len(e.parts) = Len(dir.parts) + 1
                   /\ Len(e.parts[Len(e.parts)]) > 1
                   /\ e.parts[Len(e.parts)][Len(e.parts[Len(e.parts)])] = "py"
        found == SelectSeq(fs[dir.root], here)
    IN  [i \in 1..Len(found) |-> PathOf(dir.root, found[i].parts)]

\* [d for d in dir.iterdir() if d.is_dir()]: the subdirectories, as listed.
iterdir_dirs(dir) ==
    LET below(e) == IsUnder(e.parts, dir.parts) /\ Len(e.parts) > Len(dir.parts) + 1
        found == SelectSeq(fs[dir.root], below)
        names == Dedup([i \in 1..Len(found) |-> found[i].parts[Len(dir.parts) + 1]])
    IN  [i \in 1..Len(names) |-> Child(dir, names[i])]

find_in_sys_path(file_path) ==
    LET hits == {i \in 1..Len(SYS_PATH) : is_file(PathOf(SYS_PATH[i], file_path))}
    IN  IF hits = {} THEN Raise(NotFoundError(file_path))
        ELSE Ok(PathOf(SYS_PATH[CHOOSE i \in hits : \A j \in hits : i <= j], file_path))

(***************************************************************************)
(* Module.                                                                 *)
(***************************************************************************)
NewModule(namespace, docstring, classes, functions, package_name) ==
    [namespace |-> namespace, docstring |-> docstring, classes |-> classes,
     functions |-> functions, package_name |-> package_name]

Module_all_classes(module) == module.classes

RECURSIVE Flatten(_)
Flatten(seqs) ==
    IF seqs = <<>> THEN <<>> ELSE Head(seqs) \o Flatten(Tail(seqs))

Module_all_functions(module) ==
    module.functions
        \o Flatten([i \in 1..Len(module.classes) |-> all_methods(module.classes[i])])

Module_from_path(namespace, path, package_name) ==
    LET parsed == ParseFile(path)
        docstring == find_node_docstring(parsed)
        classes == Collect([i \in 1..Len(parsed.classdefs) |->
                      from_parsed_class(parsed.classdefs[i], namespace, EMPTY_STRING)])
        functions == Collect([i \in 1..Len(parsed.funcdefs) |->
                      from_parsed_function(parsed.funcdefs[i], EMPTY_STRING,
                                           namespace, EMPTY_STRING)])
    IN  IF ~classes.ok THEN Raise(classes.err)
        ELSE IF ~functions.ok THEN Raise(functions.err)
        ELSE Ok(NewModule(namespace, docstring, classes.val, functions.val,
                          package_name))

(***************************************************************************)
(* Package.                                                                *)
(***************************************************************************)
\* name.replace(".", os.path.sep) as a relative path
NamespacePath(name) == [i \in 1..Len(name) |-> <<name[i]>>]

_find_classes(self_name, package_module) ==
    [i \in 1..Len(package_module.classes) |->
        [package_module.classes[i] EXCEPT
            !.namespace = Dot(self_name, package_module.classes[i].name),
            !.package_name = self_name]]

_find_functions(self_name, package_module) ==
    [i \in 1..Len(package_module.functions) |->
        [package_module.functions[i] EXCEPT
            !.namespace = Dot(self_name, package_module.functions[i].name),
            !.package_name = self_name]]

_find_modules(self_name, self_path) ==
    LET globbed == glob_py(Parent(self_path))
        keep(m) == ~StartsWithDunder(NameOf(m)[1])
        module_list == SelectSeq(globbed, keep)
    IN  Collect([i \in 1..Len(module_list) |->
            Module_from_path(Dot(self_name, Stem(NameOf(module_list[i]))),
                             module_list[i], self_name)])

\* The name _find_subpackages loads for the folder d (line 360).
SubpackageName(self_name, d) == Dot(self_name, Stem(NameOf(d)))

RECURSIVE Package(_, _)
_find_subpackages(self_name, self_path) ==
    LET folder_list == iterdir_dirs(Parent(self_path))
        has_init(d) == is_file(Child(d, InitPy))
        found == SelectSeq(folder_list, has_init)
    IN  Collect([i \in 1..Len(found) |->
            Package(SubpackageName(self_name, found[i]), self_name)])

Package(name, package_name) ==
    LET package_path == NamespacePath(name) \o <<InitPy>>
        located == find_in_sys_path(package_path)
    IN  IF ~located.ok THEN Raise(located.err) ELSE
        LET path == located.val
            loaded == Module_from_path(name, path, EMPTY_STRING)
        IN  IF ~loaded.ok THEN Raise(loaded.err) ELSE
            LET functions == _find_functions(name, loaded.val)
                classes == _find_classes(name, loaded.val)
                \* the hoisted entities are the objects of the package module
                package_module == [loaded.val EXCEPT !.functions = functions,
                                                     !.classes = classes]
                modules == _find_modules(name, path)
            IN  IF ~modules.ok THEN Raise(modules.err) ELSE
                LET subpackages == _find_subpackages(name, path)
                IN  IF ~subpackages.ok THEN Raise(subpackages.err) ELSE
                    Ok([name |-> name,
                        docstring |-> package_module.docstring,
                        package_name |-> package_name,
                        functions |-> functions,
                        classes |-> classes,
                        modules |-> modules.val,
                        subpackages |-> subpackages.val,
                        _package_module |-> package_module,
                        _path |-> path])

RECURSIVE Package_all_classes(_)
Package_all_classes(self) ==
    self.classes
        \o Flatten([i \in 1..Len(self.modules) |-> Module_all_classes(self.modules[i])])
        \o Flatten([i \in 1..Len(self.subpackages) |->
                       Package_all_classes(self.subpackages[i])])

\* Package_all_functions recursing into the subpackages before the modules.
RECURSIVE Package_all_functions_SubpackagesFirst(_)
Package_all_functions_SubpackagesFirst(self) ==
    self.functions
        \o Flatten([i \in 1..Len(self.classes) |-> all_methods(self.classes[i])])
        \o Flatten([i \in 1..Len(self.subpackages) |->
                       Package_all_functions_SubpackagesFirst(self.subpackages[i])])
        \o Flatten([i \in 1..Len(self.modules) |-> Module_all_functions(self.modules[i])])

RECURSIVE Package_all_functions(_)
Package_all_functions(self) ==
    self.functions
        \o Flatten([i \in 1..Len(self.classes) |-> all_methods(self.classes[i])])
        \o Flatten([i \in 1..Len(self.modules) |-> Module_all_functions(self.modules[i])])
        \o Flatten([i \in 1..Len(self.subpackages) |->
                       Package_all_functions(self.subpackages[i])])

RECURSIVE Package_all_modules(_)
Package_all_modules(self) ==
    self.modules
        \o Flatten([i \in 1..Len(self.subpackages) |->
                       Package_all_modules(self.subpackages[i])])

RECURSIVE all_subpackages(_)
all_subpackages(self) ==
    <<self>> \o Flatten([i \in 1..Len(self.subpackages) |->
                            all_subpackages(self.subpackages[i])])

(***************************************************************************)
(* CodeLibrary.                                                            *)
(***************************************************************************)
all_classes(pkgs) == Flatten([i \in 1..Len(pkgs) |-> Package_all_classes(pkgs[i])])

all_functions(pkgs) == Flatten([i \in 1..Len(pkgs) |-> Package_all_functions(pkgs[i])])

all_modules(pkgs) == Flatten([i \in 1..Len(pkgs) |-> Package_all_modules(pkgs[i])])

all_packages(pkgs) == Flatten([i \in 1..Len(pkgs) |-> all_subpackages(pkgs[i])])

(***************************************************************************)
(* JSON documents: the fields pydantic's json() keeps (private attributes  *)
(* are never dumped; include/exclude as each to_json passes them).         *)
(***************************************************************************)
FunctionDef_to_json(self) ==
    [docstring |-> self.docstring, name |-> self.name, namespace |-> self.namespace,
     class_name |-> self.class_name, module_name |-> self.module_name,
     package_name |-> self.package_name]

ClassDef_to_json(self) ==
    [docstring |-> self.docstring, name |-> self.name, namespace |-> self.namespace,
     module_name |-> self.module_name, package_name |-> self.package_name,
     methods |-> [i \in 1..Len(self.methods) |-> FunctionDef_to_json(self.methods[i])]]

Module_to_json(self) ==
    [namespace |-> self.namespace, docstring |-> self.docstring,
     classes |-> [i \in 1..Len(self.classes) |->
                    [docstring |-> self.classes[i].docstring,
                     name |-> self.classes[i].name,
                     namespace |-> self.classes[i].namespace,
                     methods |-> ClassDef_to_json(self.classes[i]).methods]],
     functions |-> [i \in 1..Len(self.functions) |->
                      FunctionDef_to_json(self.functions[i])],
     package_name |-> self.package_name]

Package_to_json(self) ==
    [name |-> self.name, docstring |-> self.docstring,
     package_name |-> self.package_name,
     functions |-> [i \in 1..Len(self.functions) |->
                      FunctionDef_to_json(self.functions[i])],
     classes |-> [i \in 1..Len(self.classes) |-> ClassDef_to_json(self.classes[i])],
     modules |-> [i \in 1..Len(self.modules) |->
                    [namespace |-> self.modules[i].namespace,
                     docstring |-> self.modules[i].docstring,
                     functions |-> Module_to_json(self.modules[i]).functions,
                     package_name |-> self.modules[i].package_name]],
     subpackages |-> [i \in 1..Len(self.subpackages) |->
                    [name |-> self.subpackages[i].name,
                     docstring |-> self.subpackages[i].docstring,
                     package_name |-> self.subpackages[i].package_name,
                     functions |-> [j \in 1..Len(self.subpackages[i].functions) |->
                         FunctionDef_to_json(self.subpackages[i].functions[j])]]]]

CodeLibrary_to_json(pkgs) ==
    [packages |-> [i \in 1..Len(pkgs) |-> [name |-> pkgs[i].name]]]

(***************************************************************************)
(* CodeLibrary.load_package and CodeLibrary.serialize.                     *)
(***************************************************************************)
\* load_package swallowing the exception of a failed load.
load_package_Swallow(pkgs, name) ==
    LET pkg == Package(name, EMPTY_STRING)
    IN  IF pkg.ok THEN Ok(Append(pkgs, pkg.val)) ELSE Ok(pkgs)

\* load_package returning the package already loaded under the name.
load_package_Dedup(pkgs, name) ==
    LET pkg == Package(name, EMPTY_STRING)
    IN  IF \E i \in 1..Len(pkgs) : pkgs[i].name = name THEN Ok(pkgs)
        ELSE IF pkg.ok THEN Ok(Append(pkgs, pkg.val)) ELSE Raise(pkg.err)

\* What load_package(name) does to self.packages, or the exception it raises.
load_package(pkgs, name) ==
    LET pkg == Package(name, EMPTY_STRING)
    IN  IF pkg.ok THEN Ok(Append(pkgs, pkg.val)) ELSE Raise(pkg.err)

\* Paths under target_dir.
TargetDir == <<>>
PkgDir == <<<<"pkg">>>>
ModDir == <<<<"mod">>>>
ClsDir == <<<<"cls">>>>
DefDir == <<<<"def">>>>
LibraryPath == <<<<"library", "json">>>>

MkDir(path) == [op |-> "mkdir", path |-> path, text |-> NoVal]
WriteText(path, text) == [op |-> "write_text", path |-> path, text |-> text]

PackageWrites(pkgs) ==
    LET all == all_packages(pkgs)
    IN  [i \in 1..Len(all) |->
            WriteText(Append(PkgDir, JsonName(all[i].name)), Package_to_json(all[i]))]

ModuleWrites(pkgs) ==
    LET all == all_modules(pkgs)
    IN  [i \in 1..Len(all) |->
            WriteText(Append(ModDir, JsonName(all[i].namespace)), Module_to_json(all[i]))]

ClassWrites(pkgs) ==
    LET all == all_classes(pkgs)
    IN  [i \in 1..Len(all) |->
            WriteText(Append(ClsDir, JsonName(all[i].namespace)), ClassDef_to_json(all[i]))]

FunctionWrites(pkgs) ==
    LET all == all_functions(pkgs)
    IN  [i \in 1..Len(all) |->
            WriteText(Append(DefDir, JsonName(all[i].namespace)),
                      FunctionDef_to_json(all[i]))]

\* serialize writing the library.json master list before the entity files.
serialize_LibraryFirst(pkgs) ==
    <<MkDir(TargetDir)>>
        \o <<WriteText(LibraryPath, CodeLibrary_to_json(pkgs))>>
        \o <<MkDir(PkgDir)>> \o PackageWrites(pkgs)
        \o <<MkDir(ModDir)>> \o ModuleWrites(pkgs)
        \o <<MkDir(ClsDir)>> \o ClassWrites(pkgs)
        \o <<MkDir(DefDir)>> \o FunctionWrites(pkgs)

\* The filesystem operations of serialize(target_dir), in program order.
serialize(pkgs) ==
    <<MkDir(TargetDir)>>
        \o <<MkDir(PkgDir)>> \o PackageWrites(pkgs)
        \o <<MkDir(ModDir)>> \o ModuleWrites(pkgs)
        \o <<MkDir(ClsDir)>> \o ClassWrites(pkgs)
        \o <<MkDir(DefDir)>> \o FunctionWrites(pkgs)
        \o <<WriteText(LibraryPath, CodeLibrary_to_json(pkgs))>>

(***************************************************************************)
(* The inputs: source files and the layouts of a search root.              *)
(***************************************************************************)
SrcEmpty == ParsedModule(NoDocNode, <<>>, <<>>)

SrcHoist ==
    ParsedModule(LeafDoc("Demo package."),
                 <<ParsedClass("K", NoDocNode, <<ParsedFunction("m", NoDocNode)>>)>>,
                 <<ParsedFunction("f", LeafDoc("f doc"))>>)

SrcUtil ==
    ParsedModule(NoDocNode,
                 <<ParsedClass("Widget", NodeDoc("Widget doc"),
                               <<ParsedFunction("spin", NoDocNode)>>)>>,
                 <<ParsedFunction("helper", NoDocNode)>>)

\* A property with its setter: two funcdefs of one name in a class.
SrcProp ==
    ParsedModule(NoDocNode,
                 <<ParsedClass("K", NoDocNode,
                               <<ParsedFunction("x", LeafDoc("getter")),
                                 ParsedFunction("x", NoDocNode)>>)>>,
                 <<>>)

File(parts, src) == [parts |-> parts, src |-> src]

LEmpty == <<>>

LDemo == <<File(<<<<"pkg">>, InitPy>>, SrcHoist),
           File(<<<<"pkg">>, <<"util", "py">>>>, SrcUtil)>>

LTree == <<File(<<<<"pkg">>, <<"mod", "py">>>>, SrcProp),
           File(<<<<"pkg">>, InitPy>>, SrcEmpty),
           File(<<<<"pkg">>, <<"sub">>, InitPy>>, SrcHoist),
           File(<<<<"pkg">>, <<"sub">>, <<"util", "py">>>>, SrcUtil)>>

LShadow == <<File(<<<<"pkg">>, <<"sub">>, InitPy>>, SrcUtil)>>

LDotted == <<File(<<<<"pkg">>, InitPy>>, SrcEmpty),
             File(<<<<"pkg">>, <<"sub", "x">>, InitPy>>, SrcHoist)>>

LClash == <<File(<<<<"pkg">>, InitPy>>, SrcUtil),
            File(<<<<"pkg">>, <<"sub">>, InitPy>>, SrcHoist),
            File(<<<<"pkg">>, <<"sub", "py">>>>, SrcHoist)>>

Layouts == {LEmpty, LDemo, LTree, LShadow, LDotted, LClash}

LoadNames == {<<"pkg">>, <<"pkg", "sub">>, <<"nope">>}

(***************************************************************************)
(* The run: a sequence of load_package calls, then serialize.  An          *)
(* exception ends the run, as in main.                                     *)
(***************************************************************************)
NoCall == [kind |-> "none"]
NoAttempt == [name |-> <<>>, before |-> <<>>]

Init ==
    /\ fs \in [1..NumRoots -> Layouts]
    /\ packages = <<>>
    /\ calls = <<>>
    /\ attempt = NoAttempt
    /\ pc = "load"
    /\ idx = 1
    /\ dirs = {}
    /\ disk = <<>>
    /\ written = <<>>
    /\ raised = NoError
    /\ call = NoCall
    /\ ret = NoCall

LoadPackage(name) ==
    /\ pc = "load"
    /\ Len(calls) < MaxLoads
    /\ attempt' = [name |-> name, before |-> packages]
    /\ LET r == load_package(packages, name)
       IN  IF r.ok
           THEN /\ packages' = r.val
                /\ calls' = Append(calls, name)
                /\ UNCHANGED <<pc, raised>>
           ELSE /\ raised' = r.err
                /\ pc' = "aborted"
                /\ UNCHANGED <<packages, calls>>
    /\ UNCHANGED <<fs, idx, dirs, disk, written, call, ret>>

\* main reaches library.serialize(data_dir) once the loads have returned.
BeginSerialize ==
    /\ pc = "load"
    /\ pc' = "serialize"
    /\ idx' = 1
    /\ UNCHANGED <<fs, packages, calls, attempt, dirs, disk, written, raised, call, ret>>

\* The next mkdir or write_text of serialize succeeds.
SerializeStep ==
    /\ pc = "serialize"
    /\ LET ops == serialize(packages)
           o == ops[idx]
       IN  /\ IF o.op = "mkdir"
              THEN /\ dirs' = dirs \cup {o.path}
                   /\ UNCHANGED <<disk, written>>
              ELSE /\ disk' = (o.path :> o.text) @@ disk
                   /\ written' = Append(written, o.path)
                   /\ UNCHANGED dirs
           /\ idx' = idx + 1
           /\ pc' = IF idx = Len(ops) THEN "done" ELSE "serialize"
    /\ UNCHANGED <<fs, packages, calls, attempt, raised, call, ret>>

\* The next mkdir or write_text of serialize raises.
SerializeFail ==
    /\ pc = "serialize"
    /\ raised' = FilesystemError
    /\ pc' = "aborted"
    /\ UNCHANGED <<fs, packages, calls, attempt, idx, dirs, disk, written, call, ret>>

Next ==
    \/ \E name \in LoadNames : LoadPackage(name)
    \/ BeginSerialize
    \/ SerializeStep
    \/ SerializeFail

Spec == Init /\ [][Next]_vars

(***************************************************************************)
(* Direct calls of the entity constructors, with any context arguments.    *)
(***************************************************************************)
ContextNames == {EMPTY_STRING, <<"pkg">>, <<"pkg", "mod">>}

ParsedFunctions ==
    {ParsedFunction("foo", NoDocNode), ParsedFunction("bar", LeafDoc("bar doc")),
     ParsedFunction("baz", NodeDoc("baz doc"))}

ParsedClasses ==
    {ParsedClass("Baz", NoDocNode, <<>>),
     ParsedClass("Baz", LeafDoc("Baz doc"), <<ParsedFunction("bar", NoDocNode)>>),
     ParsedClass("Qux", NodeDoc("Qux doc"),
                 <<ParsedFunction("foo", NoDocNode), ParsedFunction("bar", NoDocNode)>>)}

FunctionCalls ==
    [kind : {"function"}, parsed : ParsedFunctions, class_name : ContextNames,
     module_name : ContextNames, package_name : ContextNames]

ClassCalls ==
    [kind : {"class"}, parsed : ParsedClasses, class_name : {EMPTY_STRING},
     module_name : ContextNames, package_name : ContextNames]

InitExtract ==
    /\ call \in FunctionCalls \cup ClassCalls
    /\ ret = NoCall
    /\ fs = [r \in 1..NumRoots |-> LEmpty]
    /\ packages = <<>>
    /\ calls = <<>>
    /\ attempt = NoAttempt
    /\ pc = "call"
    /\ idx = 1
    /\ dirs = {}
    /\ disk = <<>>
    /\ written = <<>>
    /\ raised = NoError

CallFromParsedFunction ==
    /\ pc = "call"
    /\ call.kind = "function"
    /\ ret' = from_parsed_function(call.parsed, call.class_name, call.module_name,
                                   call.package_name)
    /\ pc' = "returned"
    /\ UNCHANGED <<fs, packages, calls, attempt, idx, dirs, disk, written, raised, call>>

CallFromParsedClass ==
    /\ pc = "call"
    /\ call.kind = "class"
    /\ ret' = from_parsed_class(call.parsed, call.module_name, call.package_name)
    /\ pc' = "returned"
    /\ UNCHANGED <<fs, packages, calls, attempt, idx, dirs, disk, written, raised, call>>

NextExtract == CallFromParsedFunction \/ CallFromParsedClass

SpecExtract == InitExtract /\ [][NextExtract]_vars

(***************************************************************************)
(* Properties.                                                             *)
(***************************************************************************)
Range(s) == {s[i] : i \in 1..Len(s)}

Returned == pc = "returned"

\* The first non-empty name of a preference list.
FirstNonEmpty(names) ==
    names[CHOOSE i \in 1..Len(names) :
              /\ names[i] # EMPTY_STRING
              /\ \A j \in 1..(i - 1) : names[j] = EMPTY_STRING]

SomeNonEmpty(names) == \E i \in 1..Len(names) : names[i] # EMPTY_STRING

FunctionPreference == <<call.module_name, call.package_name, call.class_name>>
ClassPreference == <<call.module_name, call.package_name>>

\* C1: a FunctionDef built by from_parsed_function, and a ClassDef built by
\* from_parsed_class, from a context with at least one non-empty name has
\* namespace = root_namespace + "." + name, where root_namespace is the first
\* non-empty of (module_name, package_name, class_name) for a function and of
\* (module_name, package_name) for a class.
C1_NamespaceIsRootDotName ==
    Returned =>
        /\ (call.kind = "function" /\ SomeNonEmpty(FunctionPreference)) =>
              /\ ret.ok
              /\ ret.val.name = <<call.parsed.name>>
              /\ ret.val.namespace
                    = FirstNonEmpty(FunctionPreference) \o <<call.parsed.name>>
        /\ (call.kind = "class" /\ SomeNonEmpty(ClassPreference)) =>
              /\ ret.ok
              /\ ret.val.name = <<call.parsed.name>>
              /\ ret.val.namespace
                    = FirstNonEmpty(ClassPreference) \o <<call.parsed.name>>
              /\ \A i \in 1..Len(ret.val.methods) :
                    LET m == ret.val.methods[i]
                    IN  m.namespace
                            = FirstNonEmpty(<<m.module_name, m.package_name,
                                              m.class_name>>) \o m.name

\* C1 witness: foo built with module_name pkg.mod while package_name and
\* class_name are set as well: its namespace is pkg.mod.foo.
C1_Witness ==
    /\ Returned
    /\ call.kind = "function"
    /\ call.parsed.name = "foo"
    /\ call.module_name = <<"pkg", "mod">>
    /\ call.package_name = <<"pkg">>
    /\ call.class_name = <<"pkg">>
    /\ ret.ok
    /\ ret.val.namespace = <<"pkg", "mod", "foo">>

\* C3: a constructor called with every context name empty fails with the
\* namespace configuration error it raises explicitly (the ValueError "Make
\* sure ... is set"), with no other kind of error, and returns no entity.
C3_EmptyContextRaisesConfigurationError ==
    Returned =>
        /\ (call.kind = "function" /\ ~SomeNonEmpty(FunctionPreference)) =>
              (~ret.ok /\ ret.err = FunctionNamespaceError)
        /\ (call.kind = "class" /\ ~SomeNonEmpty(ClassPreference)) =>
              (~ret.ok /\ ret.err = ClassNamespaceError)

\* The method lists of a list of classes, one after the other.
RECURSIVE MethodsOf(_)
MethodsOf(classes) ==
    IF classes = <<>> THEN <<>>
    ELSE MethodsOf(SubSeq(classes, 1, Len(classes) - 1))
             \o classes[Len(classes)].methods

RECURSIVE Concat(_)
Concat(seqs) ==
    IF seqs = <<>> THEN <<>>
    ELSE Concat(SubSeq(seqs, 1, Len(seqs) - 1)) \o seqs[Len(seqs)]

RECURSIVE Sum(_)
Sum(ns) == IF ns = <<>> THEN 0 ELSE Head(ns) + Sum(Tail(ns))

\* Every package of the loaded trees, subpackages included.
RECURSIVE TreePackages(_)
TreePackages(p) ==
    {p} \cup UNION {TreePackages(p.subpackages[i]) : i \in 1..Len(p.subpackages)}

LoadedPackages == UNION {TreePackages(packages[i]) : i \in 1..Len(packages)}

\* The classes of a package tree: hoisted, of the sibling modules, of the
\* subpackages.
RECURSIVE TreeClasses(_)
TreeClasses(p) ==
    Range(p.classes)
        \cup UNION {Range(p.modules[i].classes) : i \in 1..Len(p.modules)}
        \cup UNION {TreeClasses(p.subpackages[i]) : i \in 1..Len(p.subpackages)}

LoadedClasses == UNION {TreeClasses(packages[i]) : i \in 1..Len(packages)}

\* C2: in every loaded Package tree, every method m of every class c
\* (hoisted classes after _find_classes, classes of sibling modules, at any
\* depth) has m.namespace = c.namespace + "." + m.name and m.class_name =
\* c.namespace, and its namespace is not the namespace of the class's module
\* or package followed directly by the method name.
C2_MethodsUnderTheirClass ==
    \A c \in LoadedClasses : \A i \in 1..Len(c.methods) :
        LET m == c.methods[i]
        IN  /\ m.namespace = c.namespace \o m.name
            /\ m.class_name = c.namespace
            /\ m.namespace # c.module_name \o m.name
            /\ m.namespace # c.package_name \o m.name

\* C2 witness: a loaded tree holds a hoisted class with a method (its
\* namespace rewritten by _find_classes) and a class of a sibling module
\* with a method.
C2_Witness ==
    \E p \in LoadedPackages :
        /\ \E i \in 1..Len(p.classes) :
              /\ p.classes[i].methods # <<>>
              /\ p.classes[i].package_name = p.name
        /\ \E j \in 1..Len(p.modules) : \E k \in 1..Len(p.modules[j].classes) :
              p.modules[j].classes[k].methods # <<>>

BackReferences(f) ==
    {n \in {"class_name", "module_name", "package_name"} : f[n] # EMPTY_STRING}

\* C4: every FunctionDef reachable from the loaded library has at most one
\* of class_name, module_name, package_name non-empty; a function hoisted
\* from a package's __init__ module has package_name set and its earlier
\* module_name no longer set.
C4_AtMostOneBackReference ==
    /\ \A f \in Range(all_functions(packages)) : Cardinality(BackReferences(f)) <= 1
    /\ \A p \in LoadedPackages : \A i \in 1..Len(p.functions) :
          /\ p.functions[i].package_name = p.name
          /\ p.functions[i].module_name = EMPTY_STRING

\* Whether name's __init__.py exists under some search root.
InitExists(name) ==
    \E r \in 1..NumRoots : \E i \in 1..Len(fs[r]) :
        /\ Len(fs[r][i].parts) = Len(name) + 1
        /\ \A k \in 1..Len(name) : fs[r][i].parts[k] = <<name[k]>>
        /\ fs[r][i].parts[Len(name) + 1] = <<"__init__", "py">>

\* C5: when load_package(name) is called and name's __init__.py exists under
\* none of the search roots, the call fails with the not-found error, the
\* packages are exactly what they were before the call, and the run never
\* reaches serialize: no directory is made and no file is written.
C5_MissingPackageLoadsNothing ==
    (attempt # NoAttempt /\ ~InitExists(attempt.name)) =>
        /\ raised.type = "ValueError"
        /\ raised.msg = "not found in sys.path!"
        /\ raised.path = [k \in 1..(Len(attempt.name) + 1) |->
                             IF k <= Len(attempt.name) THEN <<attempt.name[k]>>
                             ELSE <<"__init__", "py">>]
        /\ packages = attempt.before
        /\ Len(calls) = Len(attempt.before)
        /\ pc = "aborted"
        /\ dirs = {} /\ disk = <<>> /\ written = <<>>
        /\ ~ENABLED (BeginSerialize \/ SerializeStep)

\* C5 witness: with one package loaded, a load of a name found under no
\* search root has failed.
C5_Witness ==
    /\ attempt.name = <<"nope">>
    /\ Len(attempt.before) = 1
    /\ ~InitExists(attempt.name)
    /\ raised # NoError

NumberOfFunctions(p) ==
    Len(p.functions)
        + Sum([i \in 1..Len(p.classes) |-> Len(p.classes[i].methods)])
        + Sum([i \in 1..Len(p.modules) |->
                 Len(p.modules[i].functions)
                     + Sum([j \in 1..Len(p.modules[i].classes) |->
                              Len(p.modules[i].classes[j].methods)])])
        + Sum([i \in 1..Len(p.subpackages) |->
                 Len(Package_all_functions(p.subpackages[i]))])

\* C6: for every loaded package p, p.all_functions() is p's hoisted
\* functions in list order, then the methods of p's hoisted classes class by
\* class, then for each sibling module in list order its functions followed
\* by the methods of its classes, then for each subpackage in list order
\* that subpackage's all_functions(); nothing else and nothing twice (the
\* sequence is as long as the tree has function objects).
C6_AllFunctionsOrder ==
    \A p \in LoadedPackages :
        /\ Package_all_functions(p)
              = p.functions
                  \o MethodsOf(p.classes)
                  \o Concat([i \in 1..Len(p.modules) |->
                        p.modules[i].functions \o MethodsOf(p.modules[i].classes)])
                  \o Concat([i \in 1..Len(p.subpackages) |->
                        Package_all_functions(p.subpackages[i])])
        /\ Len(Package_all_functions(p)) = NumberOfFunctions(p)

\* C6 witness: a loaded package with hoisted functions, hoisted classes with
\* methods, a sibling module with functions and a subpackage with functions.
C6_Witness ==
    \E p \in LoadedPackages :
        /\ p.functions # <<>>
        /\ MethodsOf(p.classes) # <<>>
        /\ \E i \in 1..Len(p.modules) : p.modules[i].functions # <<>>
        /\ \E i \in 1..Len(p.subpackages) :
              Package_all_functions(p.subpackages[i]) # <<>>

Distinct(s) == \A i, j \in 1..Len(s) : i # j => s[i] # s[j]

Names(s) == [i \in 1..Len(s) |-> s[i].name]
Namespaces(s) == [i \in 1..Len(s) |-> s[i].namespace]

\* C7: in a run in which no top-level name is loaded twice, no two packages
\* of all_packages() share a name and no two modules of all_modules(),
\* classes of all_classes(), functions of all_functions() share a namespace,
\* so serialize writes no file twice.
C7_FileNamesUnique ==
    Distinct(calls) =>
        /\ Distinct(Names(all_packages(packages)))
        /\ Distinct(Namespaces(all_modules(packages)))
        /\ Distinct(Namespaces(all_classes(packages)))
        /\ Distinct(Namespaces(all_functions(packages)))
        /\ Distinct(written)

\* The content of the last package of all_packages() named name.
LastPackageJson(name) ==
    LET all == all_packages(packages)
        last == CHOOSE i \in 1..Len(all) :
                    /\ all[i].name = name
                    /\ \A j \in (i + 1)..Len(all) : all[j].name # name
    IN  Package_to_json(all[last])

\* C8: load_package never deduplicates: packages holds one Package per call
\* that returned, in call order; after serialize, pkg/<name>.json holds the
\* content of the last package written under that name, the path having
\* been written once per package of that name, and library.json lists one
\* name per call.
C8_NoDeduplication ==
    /\ Len(packages) = Len(calls)
    /\ \A i \in 1..Len(calls) : packages[i].name = calls[i]
    /\ pc = "done" =>
          /\ \A q \in Range(all_packages(packages)) :
                /\ disk[<<<<"pkg">>, q.name \o <<"json">>>>] = LastPackageJson(q.name)
                /\ Cardinality({i \in 1..Len(written) :
                        written[i] = <<<<"pkg">>, q.name \o <<"json">>>>})
                      = Cardinality({i \in 1..Len(all_packages(packages)) :
                            all_packages(packages)[i].name = q.name})
          /\ disk[<<<<"library", "json">>>>]
                = [packages |-> [i \in 1..Len(calls) |-> [name |-> calls[i]]]]

\* C8 witness: a run that loaded one name twice and serialized.
C8_Witness ==
    /\ pc = "done"
    /\ Len(calls) = 2
    /\ calls[1] = calls[2]

\* The subdirectories of p's directory that hold an __init__.py.
PackageDirsOf(p) ==
    {e.parts[Len(p._path.parts)] : e \in
        {e \in Range(fs[p._path.root]) :
            /\ Len(e.parts) = Len(p._path.parts) + 1
            /\ SubSeq(e.parts, 1, Len(p._path.parts) - 1)
                  = SubSeq(p._path.parts, 1, Len(p._path.parts) - 1)
            /\ e.parts[Len(e.parts)] = <<"__init__", "py">>}}

\* C9: every subpackage s of a loaded package p is the subdirectory it was
\* discovered in: s's __init__.py is <p's directory>/<d>/__init__.py under
\* p's search root for a subdirectory d, and p.subpackages has exactly one
\* entry per subdirectory of p's directory that holds an __init__.py.
C9_SubpackageIsDiscoveredDirectory ==
    \A p \in LoadedPackages :
        /\ \A i \in 1..Len(p.subpackages) :
              /\ p.subpackages[i]._path.root = p._path.root
              /\ \E d \in PackageDirsOf(p) :
                    p.subpackages[i]._path.parts
                        = SubSeq(p._path.parts, 1, Len(p._path.parts) - 1)
                              \o <<d, <<"__init__", "py">>>>
        /\ \A d \in PackageDirsOf(p) :
              Cardinality({i \in 1..Len(p.subpackages) :
                  p.subpackages[i]._path.parts
                      = SubSeq(p._path.parts, 1, Len(p._path.parts) - 1)
                            \o <<d, <<"__init__", "py">>>>}) = 1
        /\ Len(p.subpackages) = Cardinality(PackageDirsOf(p))

\* C10: serialize writes the pkg files, then the mod files, then the cls
\* files, then the def files, and library.json last: in every state in
\* which this run has written library.json, a file has been written for
\* every package, module, class and function of the library.
C10_LibraryJsonWrittenLast ==
    (<<<<"library", "json">>>> \in Range(written)) =>
        /\ \A q \in Range(all_packages(packages)) :
              <<<<"pkg">>, q.name \o <<"json">>>> \in Range(written)
        /\ \A m \in Range(all_modules(packages)) :
              <<<<"mod">>, m.namespace \o <<"json">>>> \in Range(written)
        /\ \A c \in Range(all_classes(packages)) :
              <<<<"cls">>, c.namespace \o <<"json">>>> \in Range(written)
        /\ \A f \in Range(all_functions(packages)) :
              <<<<"def">>, f.namespace \o <<"json">>>> \in Range(written)
        /\ written[Len(written)] = <<<<"library", "json">>>>

\* C10 witness: a run has written library.json after files of all four
\* categories.
C10_Witness ==
    /\ <<<<"library", "json">>>> \in Range(written)
    /\ \A d \in {"pkg", "mod", "cls", "def"} :
          \E i \in 1..Len(written) : written[i][1] = <<d>>

====
